---- MODULE Spec2Model ----
(***************************************************************************)
(* Model of the caddy-knownagents HTTP middleware and of its predecessor   *)
(* caddy-darkvisitors: Caddyfile parsing (UnmarshalCaddyfile), activation  *)
(* (Provision, FetchRobotsTxt, Validate) and request handling (ServeHTTP   *)
(* with its detached visit-event report goroutine).                        *)
(*                                                                         *)
(* A Go string is modelled as a sequence of segments: a segment is either  *)
(* a literal piece of text or a placeholder such as {env.KA_ACCESS_TOKEN}. *)
(* The empty sequence is the empty string.  A nil pointer to a RobotsTxt   *)
(* is the empty sequence, a non-nil one a sequence holding one record.     *)
(***************************************************************************)
EXTENDS Integers, Sequences, FiniteSets, TLC

VARIABLES
    kind,         \* which module the instance is: "Knownagents" or "Darkvisitors"
    envSet,       \* whether the environment variable the token placeholder names is set
    dispenser,    \* the caddyfile.Dispenser's tokens handed to UnmarshalCaddyfile
    m,            \* the module instance: [AccessToken, RobotsTxt]
    phase,        \* lifecycle of the instance
    lastErr,      \* the error the last lifecycle call returned (NoErr for nil)
    fetch,        \* the robots.txt fetch: [pc, outcome, writes, late]
    req,          \* req[r]: the *http.Request as it is now: [Path, Method, Header]
    orig,         \* orig[r]: the request as ServeHTTP received it
    ctxVars,      \* ctxVars[r]: the request-scoped robots_txt variable, <<>> when unset
    pc,           \* pc[r]: where ServeHTTP is for request r
    nextErr,      \* nextErr[r]: what next.ServeHTTP returned
    written,      \* written[r]: the status next wrote to the ResponseWriter, 0 if none
    ret,          \* ret[r]: what ServeHTTP returned
    report,       \* report[r]: the report goroutine: [pc, posts, event, resp]
    crashed       \* an unrecovered panic has terminated the process

vars == <<kind, envSet, dispenser, m, phase, lastErr, fetch,
          req, orig, ctxVars, pc, nextErr, written, ret, report, crashed>>

moduleVars == <<kind, envSet, dispenser, m, phase, lastErr, fetch>>
requestVars == <<req, orig, ctxVars, pc, nextErr, written, ret, report, crashed>>

----------------------------------------------------------------------------
(* Bounds of the model *)

\* most arguments after agent_types on one line
MaxArgs == 2
\* most subdirective lines inside one robots_txt block
MaxDirectives == 2
\* most requests the instance serves
MaxRequests == 2
\* arguments of the agent_types directive of the validated configurations
MaxLabels == 2

----------------------------------------------------------------------------
(* Strings *)

\* a string made of one literal piece
S(text) == <<text>>

EmptyString == <<>>

\* the placeholder the README's example uses for the token
TokenPlaceholder == "{env.KA_ACCESS_TOKEN}"

Placeholders == {TokenPlaceholder}

\* the value the global replacer knows for a placeholder, EmptyString when the
\* environment variable is not set
PlaceholderValue(p, set) == IF p = TokenPlaceholder /\ set THEN S("s3cret") ELSE EmptyString

RECURSIVE ReplaceAll(_, _, _)
\* caddy.Replacer.ReplaceAll(input, empty): every placeholder is replaced, by its
\* value or, when that is empty or unknown, by `empty`
ReplaceAll(input, empty, set) ==
    IF input = <<>> THEN <<>>
    ELSE LET seg == Head(input)
             out == IF seg \in Placeholders
                    THEN (IF PlaceholderValue(seg, set) = EmptyString
                          THEN empty ELSE PlaceholderValue(seg, set))
                    ELSE <<seg>>
         IN out \o ReplaceAll(Tail(input), empty, set)

----------------------------------------------------------------------------
(* Constants of the source *)

AnalyticsEndpoint == "https://api.knownagents.com/visits"
RobotsTxtEndpoint == "https://api.knownagents.com/robots-txts"

AIAssistant == S("AI Assistant")
AIDataScraper == S("AI Data Scraper")
AISearchCrawler == S("AI Search Crawler")
Archiver == S("Archiver")
DeveloperHelper == S("Developer Helper")
Fetcher == S("Fetcher")
HeadlessBrowser == S("Headless Browser")
IntelligenceGatherer == S("Intelligence Gatherer")
Scraper == S("Scraper")
SearchEngineCrawlers == S("Search Engine Crawler")
SEOCrawler == S("SEO Crawler")
Uncategorized == S("Uncategorized")
UndocumentedAIAgent == S("Undocumented AI Agent")

allAgentTypes ==
    << AIAssistant, AIDataScraper, AISearchCrawler, Archiver, DeveloperHelper,
       Fetcher, HeadlessBrowser, IntelligenceGatherer, Scraper,
       SearchEngineCrawlers, SEOCrawler, Uncategorized, UndocumentedAIAgent >>

\* slices.Contains
Contains(s, x) == \E i \in 1..Len(s) : s[i] = x

----------------------------------------------------------------------------
(* Errors *)

NoErr == [msg |-> "nil", arg |-> EmptyString]
Err(msg) == [msg |-> msg, arg |-> EmptyString]
Errf(msg, arg) == [msg |-> msg, arg |-> arg]

----------------------------------------------------------------------------
(* The module's fields *)

Nil == <<>>

\* new(RobotsTxt)
NewRobotsTxt == << [AgentTypes |-> <<>>, Disallow |-> EmptyString, text |-> ""] >>

\* var m Knownagents
NewModule == [AccessToken |-> EmptyString, RobotsTxt |-> Nil]

SetRobots(mod, field, value) ==
    [mod EXCEPT !.RobotsTxt = << [ @[1] EXCEPT ![field] = value ] >>]

----------------------------------------------------------------------------
(* caddyfile.Dispenser: tokens are [text, line]; the state of a dispenser is *)
(* [cursor, nesting], the cursor being the 1-based index of the current     *)
(* token (0 before the first).                                              *)

Tok(text, line) == [text |-> text, line |-> line]

OpenBrace == S("{")
CloseBrace == S("}")

NewDispenser == [cursor |-> 0, nesting |-> 0]

Val(toks, d) == IF d.cursor \in 1..Len(toks) THEN toks[d.cursor].text ELSE EmptyString

\* Dispenser.Next
DNext(toks, d) ==
    IF d.cursor < Len(toks)
    THEN [ok |-> TRUE, d |-> [d EXCEPT !.cursor = @ + 1]]
    ELSE [ok |-> FALSE, d |-> d]

\* Dispenser.nextOnSameLine
NextOnSameLine(toks, d) ==
    IF d.cursor < 1 THEN [ok |-> TRUE, d |-> [d EXCEPT !.cursor = @ + 1]]
    ELSE IF d.cursor >= Len(toks) THEN [ok |-> FALSE, d |-> d]
    ELSE IF toks[d.cursor].line = toks[d.cursor + 1].line
         THEN [ok |-> TRUE, d |-> [d EXCEPT !.cursor = @ + 1]]
         ELSE [ok |-> FALSE, d |-> d]

\* Dispenser.NextArg after its call of nextOnSameLine gave n
NextArgFrom(toks, n) ==
    IF ~n.ok THEN n
    ELSE IF Val(toks, n.d) = OpenBrace
         THEN [ok |-> FALSE, d |-> [n.d EXCEPT !.cursor = @ - 1]]
         ELSE n

\* Dispenser.NextArg
NextArg(toks, d) == NextArgFrom(toks, NextOnSameLine(toks, d))

\* NextBlock inside a block: `else if d.Val() == "{" && !d.nextOnSameLine()`
\* with s2 what nextOnSameLine gives at e
OpensNested(toks, e, s2) ==
    IF Val(toks, e) # OpenBrace THEN e
    ELSE IF ~s2.ok THEN [e EXCEPT !.nesting = @ + 1]
    ELSE s2.d

\* NextBlock inside a block, the token n consumed and s what nextOnSameLine
\* gives there: `if d.Val() == "}" && !d.nextOnSameLine() { d.nesting-- }`
ClosesBlock(toks, n, s) ==
    IF Val(toks, n) = CloseBrace /\ ~s.ok THEN [n EXCEPT !.nesting = @ - 1]
    ELSE IF Val(toks, n) = CloseBrace
    THEN OpensNested(toks, s.d, NextOnSameLine(toks, s.d))
    ELSE OpensNested(toks, n, s)

StillInside(d, initialNestingLevel) ==
    [ok |-> d.nesting > initialNestingLevel, d |-> d]

\* NextBlock inside a block, n what d.Next() gave
NextInBlock(toks, n, initialNestingLevel) ==
    IF ~n.ok THEN n
    ELSE StillInside(ClosesBlock(toks, n.d, NextOnSameLine(toks, n.d)),
                     initialNestingLevel)

\* NextBlock before a block, o the token after the consumed open brace
BlockOpened(toks, o) ==
    IF Val(toks, o) = CloseBrace
    THEN [ok |-> FALSE, d |-> o]
    ELSE [ok |-> TRUE, d |-> [o EXCEPT !.nesting = @ + 1]]

\* NextBlock before a block, s what nextOnSameLine gave
OpenBlock(toks, s) ==
    IF ~s.ok THEN s
    ELSE IF Val(toks, s.d) # OpenBrace
    THEN [ok |-> FALSE, d |-> [s.d EXCEPT !.cursor = @ - 1]]
    ELSE BlockOpened(toks, DNext(toks, s.d).d)

\* Dispenser.NextBlock
NextBlock(toks, d, initialNestingLevel) ==
    IF d.nesting > initialNestingLevel
    THEN NextInBlock(toks, DNext(toks, d), initialNestingLevel)
    ELSE OpenBlock(toks, NextOnSameLine(toks, d))

----------------------------------------------------------------------------
(* UnmarshalCaddyfile.  Each step of the code is an operator that takes what *)
(* the dispenser call before it returned.                                   *)

\* Dispenser.ArgErr
ArgErr(toks, d) == Errf("wrong argument count or unexpected line ending after", Val(toks, d))

Result(err, d, mod) == [err |-> err, d |-> d, m |-> mod]

RECURSIVE AppendArgs(_, _, _)
\* for d.NextArg() { ... }, a what NextArg returned
AppendArgsFrom(toks, a, list) ==
    IF a.ok THEN AppendArgs(toks, a.d, Append(list, Val(toks, a.d)))
    ELSE [d |-> a.d, list |-> list]

\* for d.NextArg() { AgentTypes = append(AgentTypes, d.Val()) }
AppendArgs(toks, d, list) == AppendArgsFrom(toks, NextArg(toks, d), list)

\* a wildcard branch that accepts whatever follows the "*"
WildcardIgnoringMore(toks, b, wild) == Result(NoErr, b.d, wild)

\* `m.RobotsTxt.AgentTypes = allAgentTypes; if d.NextArg() { return d.Errf(...) }`
Wildcard(toks, b, wild) ==
    IF b.ok
    THEN Result(Errf("unexpected argument", Val(toks, b.d)), b.d, wild)
    ELSE Result(NoErr, b.d, wild)

\* the else branch: the first argument and every further one appended
Explicit(r, mod) == Result(NoErr, r.d, SetRobots(mod, "AgentTypes", r.list))

\* case "agent_types", a what its first NextArg returned
AgentTypesArg(toks, a, mod) ==
    IF ~a.ok THEN Result(ArgErr(toks, a.d), a.d, mod)
    ELSE IF Val(toks, a.d) = S("*")
    THEN Wildcard(toks, NextArg(toks, a.d), SetRobots(mod, "AgentTypes", allAgentTypes))
    ELSE Explicit(AppendArgs(toks, a.d,
                             Append(mod.RobotsTxt[1].AgentTypes, Val(toks, a.d))),
                  mod)

\* case "agent_types" of the robots_txt block
AgentTypesCase(toks, d, mod) == AgentTypesArg(toks, NextArg(toks, d), mod)

\* case "disallow", a what NextArg returned
DisallowArg(toks, a, mod) ==
    IF ~a.ok THEN Result(ArgErr(toks, a.d), a.d, mod)
    ELSE Result(NoErr, a.d, SetRobots(mod, "Disallow", Val(toks, a.d)))

\* case "disallow" of the robots_txt block
DisallowCase(toks, d, mod) == DisallowArg(toks, NextArg(toks, d), mod)

\* switch d.Val() inside the robots_txt block
RobotsTxtSwitch(toks, d, mod) ==
    IF Val(toks, d) = S("agent_types") THEN AgentTypesCase(toks, d, mod)
    ELSE IF Val(toks, d) = S("disallow") THEN DisallowCase(toks, d, mod)
    ELSE Result(Errf("unknown subdirective", Val(toks, d)), d, mod)

RECURSIVE RobotsTxtLoop(_, _, _, _)
\* the end of one iteration: an error returns, otherwise the loop goes on
RobotsTxtContinue(toks, c, nesting) ==
    IF c.err # NoErr THEN c ELSE RobotsTxtLoop(toks, c.d, c.m, nesting)

\* one iteration, nb what NextBlock returned
RobotsTxtBody(toks, nb, mod, nesting) ==
    IF ~nb.ok THEN Result(NoErr, nb.d, mod)
    ELSE RobotsTxtContinue(toks, RobotsTxtSwitch(toks, nb.d, mod), nesting)

\* for nesting := d.Nesting(); d.NextBlock(nesting); { switch d.Val() ... }
RobotsTxtLoop(toks, d, mod, nesting) ==
    RobotsTxtBody(toks, NextBlock(toks, d, nesting), mod, nesting)

\* case "robots_txt" of the module's block
RobotsTxtCase(toks, d, mod) ==
    IF mod.RobotsTxt # Nil
    THEN Result(Err("robots_txt is already configured"), d, mod)
    ELSE RobotsTxtLoop(toks, d, [mod EXCEPT !.RobotsTxt = NewRobotsTxt], d.nesting)

\* case "access_token", a what NextArg returned
AccessTokenArg(toks, a, mod) ==
    IF ~a.ok THEN Result(ArgErr(toks, a.d), a.d, mod)
    ELSE Result(NoErr, a.d, [mod EXCEPT !.AccessToken = Val(toks, a.d)])

\* case "access_token" of the module's block
AccessTokenCase(toks, d, mod) == AccessTokenArg(toks, NextArg(toks, d), mod)

\* switch d.Val() inside the module's block
ModuleSwitch(toks, d, mod) ==
    IF Val(toks, d) = S("robots_txt") THEN RobotsTxtCase(toks, d, mod)
    ELSE IF Val(toks, d) = S("access_token") THEN AccessTokenCase(toks, d, mod)
    ELSE Result(Errf("unrecognized subdirective", Val(toks, d)), d, mod)

RECURSIVE ModuleLoop(_, _, _, _)
ModuleContinue(toks, c, nesting) ==
    IF c.err # NoErr THEN c ELSE ModuleLoop(toks, c.d, c.m, nesting)

ModuleBody(toks, nb, mod, nesting) ==
    IF ~nb.ok THEN Result(NoErr, nb.d, mod)
    ELSE ModuleContinue(toks, ModuleSwitch(toks, nb.d, mod), nesting)

\* the outer for nesting := d.Nesting(); d.NextBlock(nesting); { ... }
ModuleLoop(toks, d, mod, nesting) ==
    ModuleBody(toks, NextBlock(toks, d, nesting), mod, nesting)

\* the checks after the loop, a what `if d.NextArg()` returned
PostParse(toks, a, mod) ==
    IF a.ok THEN Result(Errf("unexpected argument", Val(toks, a.d)), a.d, mod)
    ELSE IF mod.AccessToken = EmptyString
    THEN Result(Err("missing access token"), a.d, mod)
    ELSE IF mod.RobotsTxt # Nil /\ Len(mod.RobotsTxt[1].AgentTypes) = 0
    THEN Result(Err("missing agent type filters"), a.d, mod)
    ELSE Result(NoErr, a.d, mod)

\* after the loop: its error returned, or the checks made
AfterLoop(toks, body) ==
    IF body.err # NoErr THEN body
    ELSE PostParse(toks, NextArg(toks, body.d), body.m)

\* the loop entered with the directive name consumed
UnmarshalFrom(toks, d0, mod) == AfterLoop(toks, ModuleLoop(toks, d0, mod, d0.nesting))

\* the whole of UnmarshalCaddyfile on the tokens toks, into the instance mod
Unmarshal(toks, mod) == UnmarshalFrom(toks, DNext(toks, NewDispenser).d, mod)

----------------------------------------------------------------------------
(* The configurations the model parses: source lines, each a sequence of   *)
(* token texts, tokenized with the line each token stands on.              *)

SeqUpTo(set, n) == UNION { [1..k -> set] : k \in 0..n }

RECURSIVE Tokenize(_, _)
Tokenize(lines, first) ==
    IF lines = <<>> THEN <<>>
    ELSE [i \in 1..Len(Head(lines)) |-> Tok(Head(lines)[i], first)]
         \o Tokenize(Tail(lines), first + 1)

DirectiveName(k) == IF k = "Knownagents" THEN S("knownagents") ELSE S("darkvisitors")

\* `name { <top lines> }`
ModuleBlock(k, top) ==
    Tokenize(<< <<DirectiveName(k), OpenBrace>> >> \o top \o << <<CloseBrace>> >>, 1)

\* `robots_txt { <block lines> }`
RobotsTxtBlock(block) ==
    << <<S("robots_txt"), OpenBrace>> >> \o block \o << <<CloseBrace>> >>

ArgTexts == {S("*"), Archiver, S("Bogus")}

AgentTypesLines == { <<S("agent_types")>> \o args : args \in SeqUpTo(ArgTexts, MaxArgs) }

DisallowLines ==
    { <<S("disallow")>>, <<S("disallow"), S("/private")>>, <<S("disallow"), EmptyString>> }

BlockLines == AgentTypesLines \cup DisallowLines \cup { <<S("allow"), S("/")>> }

AccessTokenLines ==
    { <<S("access_token")>>,
      <<S("access_token"), EmptyString>>,
      <<S("access_token"), S("aHVudGVyMg==")>>,
      <<S("access_token"), <<TokenPlaceholder>> >> }

TokenLine == <<S("access_token"), S("aHVudGVyMg==")>>

\* every robots_txt block of the bounded grammar, after a token
BlockBodies ==
    { <<TokenLine>> \o RobotsTxtBlock(b) : b \in SeqUpTo(BlockLines, MaxDirectives) }

\* nothing, a bare `robots_txt`, or one of two usual blocks
RobotsTxtItems ==
    { <<>>,
      << <<S("robots_txt")>> >>,
      RobotsTxtBlock(<< <<S("agent_types"), S("*")>> >>),
      RobotsTxtBlock(<< <<S("agent_types"), Archiver>>, <<S("disallow"), S("/private")>> >>) }

\* every way of giving the token, or none, before or after one of the items
TokenBodies ==
    { a \o r : a \in {<<>>} \cup { <<l>> : l \in AccessTokenLines }, r \in RobotsTxtItems }
    \cup { r \o <<l>> : l \in AccessTokenLines, r \in RobotsTxtItems }

TopBodies ==
    BlockBodies \cup TokenBodies
    \cup { <<TokenLine>> \o RobotsTxtBlock(<<>>) \o RobotsTxtBlock(<<>>),
           << <<S("access_token"), S("aHVudGVyMg=="), S("extra")>> >>,
           << <<S("order")>> >> }

UsesPlaceholder(top) ==
    \E i \in 1..Len(top) : \E j \in 1..Len(top[i]) : top[i][j] = <<TokenPlaceholder>>

\* the labels of the validated configurations: the catalog, "*", and labels
\* that are not of the catalog (unknown, a catalog label in lower case, empty)
LabelTexts ==
    { allAgentTypes[i] : i \in 1..Len(allAgentTypes) }
    \cup { S("*"), S("Bogus"), S("archiver"), EmptyString }

\* a token alone, or a token and a block of one agent_types directive
ValidateBodies ==
    { <<TokenLine>> }
    \cup { <<TokenLine>> \o RobotsTxtBlock(<< <<S("agent_types")>> \o args >>) :
              args \in SeqUpTo(LabelTexts, MaxLabels) \ { <<>> } }

\* the configurations of the request-handling specification
ServeBodies ==
    { <<TokenLine>>,
      <<TokenLine>> \o RobotsTxtBlock(<< <<S("agent_types"), S("*")>> >>) }

----------------------------------------------------------------------------
(* HTTP requests and headers *)

Kinds == {"Knownagents", "Darkvisitors"}

Requests == 1..MaxRequests

\* http.Header with canonical keys, as net/http builds it for an incoming request
WithCookie == [k \in {"Cookie", "User-Agent"} |->
                 IF k = "Cookie" THEN <<"session=abc">> ELSE <<"GPTBot/1.0">>]

\* the requests the host hands to ServeHTTP
Incoming == { [Path |-> "/robots.txt", Method |-> "GET", Header |-> WithCookie] }

NoRequest == [Path |-> "", Method |-> "", Header |-> <<>>]

\* textproto.CanonicalMIMEHeaderKey on the keys the model uses
CanonicalKey(k) == IF k \in {"cookie", "COOKIE", "Cookie"} THEN "Cookie" ELSE k

\* Header.Clone: a deep copy, a value of its own
Clone(h) == h

\* Header.Del
Del(h, key) == [k \in (DOMAIN h) \ {CanonicalKey(key)} |-> h[k]]

\* Header.Set
Set(h, key, value) ==
    [k \in (DOMAIN h) \cup {CanonicalKey(key)} |->
        IF k = CanonicalKey(key) THEN <<value>> ELSE h[k]]

\* what the handlers after this one may do to the request before they return
\* (Caddy's rewrite handler sets the method and the URI, request_header the headers)
NextMutations == {"none", "rewrite", "request_header"}

Mutate(rq, mut) ==
    CASE mut = "rewrite" -> [rq EXCEPT !.Path = "/index.html", !.Method = "HEAD"]
      [] mut = "request_header" -> [rq EXCEPT !.Header = Set(Del(@, "User-Agent"), "X-Real-IP", "10.0.0.1")]
      [] OTHER -> rq

\* the error a failing next handler returns
HandlerError == Err("upstream failed")

\* how the rest of the chain ends: it fails, or it writes a response with some
\* status and returns nil, having changed the request or not
NextOutcomes ==
    { [mut |-> "none", err |-> HandlerError, status |-> 0] }
    \cup { [mut |-> "none", err |-> NoErr, status |-> st] : st \in {200, 500} }
    \cup { [mut |-> mu, err |-> NoErr, status |-> 200] : mu \in NextMutations }

\* json.Marshal fails on a value encoding/json cannot encode; strings, string
\* slices and maps of them it always encodes
JsonUnsupported == {"chan", "func", "complex"}
MarshalErr(types) == types \cap JsonUnsupported # {}

\* http.NewRequest fails on an invalid method or an unparsable URL
NewRequestErr(method, url) ==
    method \notin {"GET", "POST"} \/ url \notin {AnalyticsEndpoint, RobotsTxtEndpoint}

\* the outcomes of http.Client.Do: a response with a nil error, a nil response
\* with an error, or (a failed redirect) a response with an error
DoOutcomes == {"ok", "err_nil", "err_resp"}

----------------------------------------------------------------------------
(* FetchRobotsTxt *)

GeneratedRobotsTxt == "User-agent: GPTBot Disallow: /"

NoOutcome == [do |-> "none", status |-> 0, read |-> "none", body |-> ""]

FetchOutcomes ==
    { [do |-> d, status |-> 0, read |-> "none", body |-> ""] : d \in {"err_nil", "err_resp"} }
    \cup { [do |-> "ok", status |-> 200, read |-> "err", body |-> ""],
           [do |-> "ok", status |-> 200, read |-> "ok", body |-> GeneratedRobotsTxt],
           [do |-> "ok", status |-> 401, read |-> "ok", body |-> "Unauthorized"],
           [do |-> "ok", status |-> 500, read |-> "ok", body |-> "Internal Server Error"] }

\* a fetch that also fails on a response whose status is an error status
FetchErrCheckingStatus(o) ==
    IF o.do # "ok" THEN Err("transport: request failed")
    ELSE IF o.status >= 400 THEN Err("unexpected status")
    ELSE IF o.read # "ok" THEN Err("read: unexpected EOF")
    ELSE NoErr

\* the error FetchRobotsTxt ends with on outcome o of its request, NoErr when it
\* reaches the assignment of the body
FetchErr(o) ==
    IF MarshalErr({"string", "[]string"}) THEN Err("json: unsupported type")
    ELSE IF NewRequestErr("POST", RobotsTxtEndpoint) THEN Err("net/http: invalid request")
    ELSE IF o.do # "ok" THEN Err("transport: request failed")
    ELSE IF o.read # "ok" THEN Err("read: unexpected EOF")
    ELSE NoErr

\* Knownagents.FetchRobotsTxt: the instance after the call and the error returned
FetchRobotsTxt(mod, o) ==
    IF FetchErr(o) # NoErr THEN [err |-> FetchErr(o), m |-> mod]
    ELSE [err |-> NoErr, m |-> SetRobots(mod, "text", o.body)]

NoFetch == [pc |-> "none", outcome |-> NoOutcome, writes |-> 0, late |-> 0]

----------------------------------------------------------------------------
(* Initial states *)

NoReport == [pc |-> "none", posts |-> 0, event |-> NoRequest]

InitInstance(kinds, bodies) ==
    /\ kind \in kinds
    /\ \E top \in bodies :
          /\ dispenser = ModuleBlock(kind, top)
          /\ envSet \in (IF UsesPlaceholder(top) THEN BOOLEAN ELSE {TRUE})
    /\ m = NewModule
    /\ phase = "new"
    /\ lastErr = NoErr
    /\ fetch = NoFetch
    /\ req = [r \in Requests |-> NoRequest]
    /\ orig = [r \in Requests |-> NoRequest]
    /\ ctxVars = [r \in Requests |-> <<>>]
    /\ pc = [r \in Requests |-> "idle"]
    /\ nextErr = [r \in Requests |-> NoErr]
    /\ written = [r \in Requests |-> 0]
    /\ ret = [r \in Requests |-> NoErr]
    /\ report = [r \in Requests |-> NoReport]
    /\ crashed = FALSE

Init == InitInstance(Kinds, ServeBodies)

InitConfig == InitInstance({"Knownagents"}, TopBodies)

InitValidate == InitInstance({"Knownagents"}, ValidateBodies)

----------------------------------------------------------------------------
(* Activation *)

\* parseCaddyfile: UnmarshalCaddyfile on a new instance
UnmarshalCaddyfile ==
    /\ ~crashed
    /\ phase = "new"
    /\ LET r == Unmarshal(dispenser, m) IN
         /\ m' = r.m
         /\ lastErr' = r.err
         /\ phase' = IF r.err = NoErr THEN "parsed" ELSE "parse_failed"
    /\ UNCHANGED <<kind, envSet, dispenser, fetch>>
    /\ UNCHANGED requestVars

\* a Provision that resolves the token and leaves Disallow as parsed
ResolvedWithoutDefault(mod, set) ==
    [mod EXCEPT !.AccessToken = ReplaceAll(mod.AccessToken, EmptyString, set)]

\* Provision up to the fetch: the token resolved, the default of Disallow
Resolved(mod, set) ==
    LET tok == [mod EXCEPT !.AccessToken = ReplaceAll(mod.AccessToken, EmptyString, set)]
    IN IF tok.RobotsTxt # Nil /\ tok.RobotsTxt[1].Disallow = EmptyString
       THEN SetRobots(tok, "Disallow", S("/"))
       ELSE tok

\* Provision dropping the error of FetchRobotsTxt, nil returned in every case
ProvisionKnownagentsIgnoringError(o) ==
    LET mod == Resolved(m, envSet) IN
    /\ m' = IF mod.RobotsTxt # Nil THEN FetchRobotsTxt(mod, o).m ELSE mod
    /\ lastErr' = NoErr
    /\ phase' = "provisioned"
    /\ fetch' = IF mod.RobotsTxt # Nil
                THEN [pc |-> "done", outcome |-> o,
                      writes |-> IF FetchErr(o) = NoErr THEN 1 ELSE 0, late |-> 0]
                ELSE fetch

\* Knownagents.Provision with the fetch's request ending in o: FetchRobotsTxt is
\* called and its error returned
ProvisionKnownagents(o) ==
    LET mod == Resolved(m, envSet) IN
    IF mod.RobotsTxt # Nil
    THEN LET f == FetchRobotsTxt(mod, o) IN
         /\ m' = f.m
         /\ lastErr' = f.err
         /\ phase' = IF f.err = NoErr THEN "provisioned" ELSE "provision_failed"
         /\ fetch' = [pc |-> "done", outcome |-> o,
                      writes |-> IF f.err = NoErr THEN 1 ELSE 0, late |-> 0]
    ELSE /\ m' = mod
         /\ lastErr' = NoErr
         /\ phase' = "provisioned"
         /\ fetch' = fetch

\* Darkvisitors.Provision: go m.FetchRobotsTxt(ctx), and nil is returned
ProvisionDarkvisitors ==
    LET mod == Resolved(m, envSet) IN
    /\ m' = mod
    /\ lastErr' = NoErr
    /\ phase' = "provisioned"
    /\ fetch' = IF mod.RobotsTxt # Nil THEN [fetch EXCEPT !.pc = "spawned"] ELSE fetch

Provision ==
    /\ ~crashed
    /\ phase = "parsed"
    /\ IF kind = "Knownagents"
       THEN \E o \in (IF m.RobotsTxt # Nil THEN FetchOutcomes ELSE {NoOutcome}) :
               ProvisionKnownagents(o)
       ELSE ProvisionDarkvisitors
    /\ UNCHANGED <<kind, envSet, dispenser>>
    /\ UNCHANGED requestVars

\* the goroutine Darkvisitors.Provision started: FetchRobotsTxt up to the
\* assignment of the body
FetchRequest ==
    /\ ~crashed
    /\ fetch.pc = "spawned"
    /\ \E o \in FetchOutcomes :
          fetch' = [fetch EXCEPT !.outcome = o,
                                 !.pc = IF FetchErr(o) = NoErr THEN "storing" ELSE "done"]
    /\ UNCHANGED <<kind, envSet, dispenser, m, phase, lastErr>>
    /\ UNCHANGED requestVars

\* the goroutine's m.RobotsTxt.text = string(body)
FetchStore ==
    /\ ~crashed
    /\ fetch.pc = "storing"
    /\ m' = FetchRobotsTxt(m, fetch.outcome).m
    /\ fetch' = [fetch EXCEPT !.pc = "done", !.writes = @ + 1,
                              !.late = @ + (IF phase = "parsed" THEN 0 ELSE 1)]
    /\ UNCHANGED <<kind, envSet, dispenser, phase, lastErr>>
    /\ UNCHANGED requestVars

RECURSIVE FirstUnrecognized(_)
\* the first label of the list that is not in allAgentTypes, <<>> when all are
FirstUnrecognized(types) ==
    IF types = <<>> THEN <<>>
    ELSE IF ~Contains(allAgentTypes, Head(types)) THEN <<Head(types)>>
    ELSE FirstUnrecognized(Tail(types))

\* a Validate that looks at the first label only
ValidateErrOfFirstLabel(mod) ==
    IF /\ mod.RobotsTxt # Nil
       /\ mod.RobotsTxt[1].AgentTypes # <<>>
       /\ ~Contains(allAgentTypes, Head(mod.RobotsTxt[1].AgentTypes))
    THEN Errf("unrecognized agent type", Head(mod.RobotsTxt[1].AgentTypes))
    ELSE NoErr

\* the error Validate returns for the instance mod
ValidateErr(mod) ==
    IF mod.RobotsTxt # Nil /\ FirstUnrecognized(mod.RobotsTxt[1].AgentTypes) # <<>>
    THEN Errf("unrecognized agent type", FirstUnrecognized(mod.RobotsTxt[1].AgentTypes)[1])
    ELSE NoErr

Validate ==
    /\ ~crashed
    /\ phase = "provisioned"
    /\ lastErr' = ValidateErr(m)
    /\ phase' = IF ValidateErr(m) = NoErr THEN "serving" ELSE "validate_failed"
    /\ UNCHANGED <<kind, envSet, dispenser, m, fetch>>
    /\ UNCHANGED requestVars

----------------------------------------------------------------------------
(* ServeHTTP *)

\* a string header whose pointer and length come from different writes
Torn == "<torn>"

\* what a read of m.RobotsTxt.text yields: the field, or, while the fetch
\* goroutine is writing it without synchronisation, the old value, the new one or
\* a torn one
TextRead ==
    IF fetch.pc = "storing" /\ fetch.outcome.body # m.RobotsTxt[1].text
    THEN {m.RobotsTxt[1].text, fetch.outcome.body, Torn}
    ELSE {m.RobotsTxt[1].text}

\* ServeHTTP with the SetVar call left out
ServeHTTPWithoutSetVar(r, in) ==
    /\ ~crashed
    /\ phase = "serving"
    /\ pc[r] = "idle"
    /\ req' = [req EXCEPT ![r] = in]
    /\ orig' = [orig EXCEPT ![r] = in]
    /\ pc' = [pc EXCEPT ![r] = "next"]
    /\ UNCHANGED <<ctxVars, nextErr, written, ret, report, crashed>>
    /\ UNCHANGED moduleVars

\* ServeHTTP from its entry to the call of next.ServeHTTP: caddyhttp.SetVar
\* when a robots policy is configured
ServeHTTP(r, in) ==
    /\ ~crashed
    /\ phase = "serving"
    /\ pc[r] = "idle"
    /\ req' = [req EXCEPT ![r] = in]
    /\ orig' = [orig EXCEPT ![r] = in]
    /\ IF m.RobotsTxt # Nil
       THEN \E t \in TextRead : ctxVars' = [ctxVars EXCEPT ![r] = <<t>>]
       ELSE ctxVars' = ctxVars
    /\ pc' = [pc EXCEPT ![r] = "next"]
    /\ UNCHANGED <<nextErr, written, ret, report, crashed>>
    /\ UNCHANGED moduleVars

\* next.ServeHTTP(w, r): the rest of the handler chain runs on the same
\* *http.Request and returns
NextServeHTTP(r, o) ==
    /\ ~crashed
    /\ pc[r] = "next"
    /\ req' = [req EXCEPT ![r] = Mutate(@, o.mut)]
    /\ nextErr' = [nextErr EXCEPT ![r] = o.err]
    /\ written' = [written EXCEPT ![r] = o.status]
    /\ pc' = [pc EXCEPT ![r] = "next_returned"]
    /\ UNCHANGED <<orig, ctxVars, ret, report, crashed>>
    /\ UNCHANGED moduleVars

\* ServeHTTP starting the report goroutine before it looks at the error
ServeHTTPReturnReportsFirst(r) ==
    /\ ~crashed
    /\ pc[r] = "next_returned"
    /\ ret' = [ret EXCEPT ![r] = nextErr[r]]
    /\ report' = [report EXCEPT ![r].pc = "spawned"]
    /\ pc' = [pc EXCEPT ![r] = "returned"]
    /\ UNCHANGED <<req, orig, ctxVars, nextErr, written, crashed>>
    /\ UNCHANGED moduleVars

\* ServeHTTP running the report in its own goroutine's place: it returns only
\* when the report has ended
ServeHTTPReturnAwaits(r) ==
    /\ ~crashed
    /\ \/ /\ pc[r] = "next_returned"
          /\ nextErr[r] # NoErr
          /\ ret' = [ret EXCEPT ![r] = nextErr[r]]
          /\ report' = report
          /\ pc' = [pc EXCEPT ![r] = "returned"]
       \/ /\ pc[r] = "next_returned"
          /\ nextErr[r] = NoErr
          /\ report' = [report EXCEPT ![r].pc = "spawned"]
          /\ pc' = [pc EXCEPT ![r] = "reporting"]
          /\ ret' = ret
       \/ /\ pc[r] = "reporting"
          /\ report[r].pc = "done"
          /\ ret' = [ret EXCEPT ![r] = NoErr]
          /\ report' = report
          /\ pc' = [pc EXCEPT ![r] = "returned"]
    /\ UNCHANGED <<req, orig, ctxVars, nextErr, written, crashed>>
    /\ UNCHANGED moduleVars

\* ServeHTTP after next.ServeHTTP returned: the error is returned, or the
\* report goroutine is started and nil is returned
ServeHTTPReturn(r) ==
    /\ ~crashed
    /\ pc[r] = "next_returned"
    /\ IF nextErr[r] # NoErr
       THEN /\ ret' = [ret EXCEPT ![r] = nextErr[r]]
            /\ report' = report
       ELSE /\ ret' = [ret EXCEPT ![r] = NoErr]
            /\ report' = [report EXCEPT ![r].pc = "spawned"]
    /\ pc' = [pc EXCEPT ![r] = "returned"]
    /\ UNCHANGED <<req, orig, ctxVars, nextErr, written, crashed>>
    /\ UNCHANGED moduleVars

\* the visit event the goroutine builds from the request as it is when it runs
VisitEvent(rq) ==
    [Path |-> rq.Path, Method |-> rq.Method, Header |-> Del(Clone(rq.Header), "Cookie")]

\* the report goroutine up to client.Do: the event is built and marshalled, the
\* request constructed and sent
ReportPost(r) ==
    /\ ~crashed
    /\ report[r].pc = "spawned"
    /\ IF MarshalErr({"string", "http.Header"}) \/ NewRequestErr("POST", AnalyticsEndpoint)
       THEN report' = [report EXCEPT ![r].pc = "done"]
       ELSE report' = [report EXCEPT ![r].pc = "inflight",
                                     ![r].posts = @ + 1,
                                     ![r].event = VisitEvent(req[r])]
    /\ UNCHANGED <<req, orig, ctxVars, pc, nextErr, written, ret, crashed>>
    /\ UNCHANGED moduleVars

\* the report sent again when client.Do failed
ReportCompleteRetries(r, o) ==
    /\ ~crashed
    /\ report[r].pc = "inflight"
    /\ IF o = "ok"
       THEN report' = [report EXCEPT ![r].pc = "done"]
       ELSE report' = [report EXCEPT ![r].posts = @ + 1, ![r].pc = "done"]
    /\ UNCHANGED <<req, orig, ctxVars, pc, nextErr, written, ret, crashed>>
    /\ UNCHANGED moduleVars

\* client.Do returns with outcome o; the result is logged and the deferred
\* resp.Body.Close() runs, on a nil resp when Do returned no response
ReportComplete(r, o) ==
    /\ ~crashed
    /\ report[r].pc = "inflight"
    /\ IF o = "err_nil"
       THEN /\ report' = [report EXCEPT ![r].pc = "panicked"]
            /\ crashed' = TRUE
       ELSE /\ report' = [report EXCEPT ![r].pc = "done"]
            /\ crashed' = crashed
    /\ UNCHANGED <<req, orig, ctxVars, pc, nextErr, written, ret>>
    /\ UNCHANGED moduleVars

----------------------------------------------------------------------------
(* Specifications *)

Activate ==
    \/ UnmarshalCaddyfile
    \/ Provision
    \/ FetchRequest
    \/ FetchStore
    \/ Validate

Serve ==
    \/ \E r \in Requests : \E in \in Incoming : ServeHTTP(r, in)
    \/ \E r \in Requests : \E o \in NextOutcomes : NextServeHTTP(r, o)
    \/ \E r \in Requests : ServeHTTPReturn(r)
    \/ \E r \in Requests : ReportPost(r)
    \/ \E r \in Requests : \E o \in DoOutcomes : ReportComplete(r, o)

Next == Activate \/ Serve

\* an instance configured, activated and serving requests
Spec == Init /\ [][Next]_vars

ActivateKnownagents ==
    \/ UnmarshalCaddyfile
    \/ Provision
    \/ Validate

\* every configuration of the bounded grammar, parsed into a Knownagents
\* instance and activated
SpecConfig == InitConfig /\ [][ActivateKnownagents]_vars

\* every list of labels of the bounded grammar, parsed, provisioned and validated
SpecValidate == InitValidate /\ [][ActivateKnownagents]_vars

----------------------------------------------------------------------------
(* Properties *)

Activated == phase \in {"provisioned", "validate_failed", "serving"}

ReportStarted(r) == report[r].pc # "none"

\* C1: when the next handler returns an error, ServeHTTP returns that very
\* error, no report goroutine is started and no analytics POST is made for the
\* request.
C1_ErrorPropagatedNoReport ==
    \A r \in Requests :
        nextErr[r] # NoErr =>
            /\ report[r] = NoReport
            /\ pc[r] = "returned" => ret[r] = nextErr[r]

C1_Witness ==
    \E r \in Requests :
        /\ pc[r] = "returned"
        /\ nextErr[r] = HandlerError
        /\ ret[r] = HandlerError

\* C2: for a request whose next handler returned nil a report goroutine is
\* started, and it attempts the analytics POST exactly once (never twice, and
\* once it has passed client.Do never zero times), whatever status the next
\* handler wrote.
C2_ExactlyOnePost ==
    \A r \in Requests :
        /\ report[r].posts <= 1
        /\ (pc[r] = "returned" /\ nextErr[r] = NoErr) => ReportStarted(r)
        /\ report[r].pc \in {"inflight", "done", "panicked"} => report[r].posts = 1
        /\ report[r].pc \in {"none", "spawned"} => report[r].posts = 0

C2_Witness ==
    \E r \in Requests :
        /\ written[r] = 500
        /\ report[r].pc = "done"
        /\ report[r].posts = 1

\* C3: a failure of the report (client.Do returning an error and no response
\* included) ends the report goroutine normally: no fault is raised.
C3_ReportFailureIgnored ==
    /\ ~crashed
    /\ \A r \in Requests : report[r].pc # "panicked"

\* C4: the cached robots.txt text is written at most once and never after
\* Provision has returned, so all requests read the same text.
C4_TextWrittenOnceInProvision ==
    /\ fetch.writes <= 1
    /\ fetch.late = 0
    /\ \A r1, r2 \in Requests :
          (pc[r1] # "idle" /\ pc[r2] # "idle") => ctxVars[r1] = ctxVars[r2]

\* C5: with a robots policy configured the request-scoped variable is set by
\* the time the next handler runs and is not touched afterwards (in Knownagents
\* it holds the cached text); with no policy it is never set.
C5_VarSetBeforeNext ==
    /\ [](\A r \in Requests :
            /\ pc[r] # "idle" => (ctxVars[r] # <<>> <=> m.RobotsTxt # Nil)
            /\ pc[r] = "idle" => ctxVars[r] = <<>>
            /\ (pc[r] # "idle" /\ m.RobotsTxt # Nil /\ kind = "Knownagents")
                  => ctxVars[r] = <<m.RobotsTxt[1].text>>)
    /\ [][\A r \in Requests : pc[r] # "idle" => ctxVars'[r] = ctxVars[r]]_vars

C5_Witness ==
    \E r1, r2 \in Requests :
        /\ pc[r1] = "next"
        /\ ctxVars[r1] = <<GeneratedRobotsTxt>>
        /\ pc[r2] = "returned"
        /\ ctxVars[r2] = <<GeneratedRobotsTxt>>

\* C6: Knownagents.Provision returns the error of a failed fetch (the request
\* failed or the body could not be read) and leaves the cached text unset; it
\* returns nil only when the fetch stored the body or no policy is configured.
C6_FetchFailureFailsProvision ==
    kind = "Knownagents" =>
        /\ phase = "provision_failed" =>
              /\ m.RobotsTxt # Nil
              /\ fetch.outcome.do # "ok" \/ fetch.outcome.read # "ok"
              /\ lastErr # NoErr
              /\ lastErr = FetchErr(fetch.outcome)
              /\ m.RobotsTxt[1].text = ""
              /\ fetch.writes = 0
        /\ Activated =>
              \/ m.RobotsTxt = Nil
              \/ /\ fetch.outcome.do = "ok"
                 /\ fetch.outcome.read = "ok"
                 /\ fetch.writes = 1
                 /\ m.RobotsTxt[1].text = fetch.outcome.body

C6_Witness ==
    /\ kind = "Knownagents"
    /\ phase = "provision_failed"
    /\ fetch.outcome.read = "err"

\* C7: ServeHTTP does not wait for the report: whenever the report goroutine
\* of a request has not ended, ServeHTTP has already returned nil for it.
C7_ReturnsBeforeReport ==
    \A r \in Requests :
        ReportStarted(r) => (pc[r] = "returned" /\ ret[r] = NoErr)

C7_Witness ==
    \E r \in Requests :
        /\ pc[r] = "returned"
        /\ ret[r] = NoErr
        /\ report[r].pc = "inflight"

\* C8: the visit event carries the path, the method and the headers (Cookie
\* removed) of the request as ServeHTTP received it, and building it leaves the
\* request's own headers as the next handler left them.
C8_EventOfOriginalRequest ==
    \A r \in Requests :
        report[r].posts > 0 =>
            /\ report[r].event = VisitEvent(orig[r])
            /\ "Cookie" \notin DOMAIN report[r].event.Header

\* C9: an activated instance has a non-empty access token.
C9_TokenNonEmptyWhenActivated ==
    Activated => m.AccessToken # EmptyString

\* the texts of the tokens of the dispenser
TokenTexts == { dispenser[i].text : i \in 1..Len(dispenser) }

\* C10: after a successful parse with a robots_txt block, agent_types is not
\* empty and is either the catalog alone or made only of arguments written in
\* the block: never the catalog together with explicit labels.
C10_WildcardExclusive ==
    (phase = "parsed" /\ m.RobotsTxt # Nil) =>
        /\ m.RobotsTxt[1].AgentTypes # <<>>
        /\ \/ m.RobotsTxt[1].AgentTypes = allAgentTypes
           \/ \A i \in 1..Len(m.RobotsTxt[1].AgentTypes) :
                 m.RobotsTxt[1].AgentTypes[i] \in TokenTexts

----------------------------------------------------------------------------
(* One agent_types directive *)

\* the indices of the tokens `agent_types` that open a line of the dispenser
AgentTypesAt ==
    { i \in 2..Len(dispenser) :
         /\ dispenser[i].text = S("agent_types")
         /\ dispenser[i - 1].line # dispenser[i].line }

\* the texts of the tokens that follow token i on its line
ArgsOf(i) ==
    LET n == Cardinality({ j \in (i + 1)..Len(dispenser) :
                              dispenser[j].line = dispenser[i].line })
    IN [k \in 1..n |-> dispenser[i + k].text]

\* the configuration is a literal token and a robots_txt block whose first directive
\* is the only agent_types directive of the block
OneAgentTypesFirst ==
    /\ Cardinality(AgentTypesAt) = 1
    /\ \A i \in AgentTypesAt :
          /\ i = 7
          /\ <<dispenser[3].text, dispenser[4].text>> = TokenLine
          /\ dispenser[5].text = S("robots_txt")
          /\ dispenser[6] = Tok(OpenBrace, 3)

\* the agent_types directive is the whole robots_txt block
OnlyAgentTypes ==
    /\ OneAgentTypesFirst
    /\ Len(dispenser) = 9 + Len(ArgsOf(7))

\* C11: the result of parsing one agent_types directive: the catalog in its
\* order for the sole argument "*", the failure "unexpected argument" naming
\* what follows a leading "*", an argument-count failure without arguments,
\* and otherwise exactly the arguments in the order written; in the last and
\* the first case the parse succeeds when nothing else is in the block.
C11_OneAgentTypesDirective ==
    (phase \in {"parsed", "parse_failed"} /\ OneAgentTypesFirst) =>
        LET args == ArgsOf(7) IN
        IF args = <<>>
        THEN /\ phase = "parse_failed"
             /\ lastErr = Errf("wrong argument count or unexpected line ending after",
                               S("agent_types"))
        ELSE IF args = << S("*") >>
        THEN /\ m.RobotsTxt # Nil
             /\ m.RobotsTxt[1].AgentTypes = allAgentTypes
             /\ OnlyAgentTypes => phase = "parsed"
        ELSE IF args[1] = S("*")
        THEN /\ phase = "parse_failed"
             /\ lastErr = Errf("unexpected argument", args[2])
        ELSE /\ m.RobotsTxt # Nil
             /\ m.RobotsTxt[1].AgentTypes = args
             /\ OnlyAgentTypes => phase = "parsed"

\* a block of explicit labels, one of them not of the catalog, was parsed
C11_Witness ==
    /\ phase = "parsed"
    /\ OnlyAgentTypes
    /\ ArgsOf(7) = <<Archiver, S("Bogus")>>
    /\ m.RobotsTxt[1].AgentTypes = <<Archiver, S("Bogus")>>

----------------------------------------------------------------------------
(* The default of disallow *)

\* the indices of the tokens `disallow` that open a line of the dispenser
DisallowAt ==
    { i \in 2..Len(dispenser) :
         /\ dispenser[i].text = S("disallow")
         /\ dispenser[i - 1].line # dispenser[i].line }

\* the argument of the last disallow directive
LastDisallow == ArgsOf(CHOOSE i \in DisallowAt : \A j \in DisallowAt : j <= i)[1]

\* Provision has passed its robots_txt branch
Defaulted == phase \in {"provisioned", "provision_failed", "validate_failed", "serving"}

\* C12 as stated: a successful parse of a robots_txt block without a disallow
\* directive leaves Disallow "/", and with one it leaves its argument.
C12_DefaultAppliedByParsing ==
    (phase = "parsed" /\ m.RobotsTxt # Nil) =>
        m.RobotsTxt[1].Disallow = (IF DisallowAt = {} THEN S("/") ELSE LastDisallow)

\* C12: a successful parse of a robots_txt block leaves Disallow empty without
\* a disallow directive and equal to the argument of the last one otherwise;
\* once Provision has run, an empty Disallow has become "/" and a non-empty
\* one is unchanged.
C12_DefaultAppliedByProvision ==
    /\ (phase = "parsed" /\ m.RobotsTxt # Nil) =>
          m.RobotsTxt[1].Disallow = (IF DisallowAt = {} THEN EmptyString ELSE LastDisallow)
    /\ (Defaulted /\ m.RobotsTxt # Nil) =>
          m.RobotsTxt[1].Disallow =
             (IF DisallowAt = {} \/ LastDisallow = EmptyString THEN S("/") ELSE LastDisallow)

\* a block without a disallow directive has been parsed and provisioned
C12_Witness ==
    /\ phase = "provisioned"
    /\ m.RobotsTxt # Nil
    /\ DisallowAt = {}
    /\ m.RobotsTxt[1].Disallow = S("/")

----------------------------------------------------------------------------
(* Validate *)

\* the labels of the catalog
Catalog == { allAgentTypes[i] : i \in 1..Len(allAgentTypes) }

\* the positions of the labels of the instance that are not of the catalog
Unrecognized ==
    IF m.RobotsTxt = Nil THEN {}
    ELSE { i \in 1..Len(m.RobotsTxt[1].AgentTypes) :
              m.RobotsTxt[1].AgentTypes[i] \notin Catalog }

\* C13: Validate fails exactly when a policy is configured and one of its
\* labels is not among the 13 of the catalog, and then its error names the
\* first such label as written; otherwise the instance is accepted.
C13_ValidateIffUnknownLabel ==
    /\ Cardinality(Catalog) = 13
    /\ phase \in {"serving", "validate_failed"} =>
          /\ (phase = "validate_failed") <=> (Unrecognized # {})
          /\ (lastErr # NoErr) <=> (Unrecognized # {})
          /\ Unrecognized # {} =>
                lastErr = Errf("unrecognized agent type",
                               m.RobotsTxt[1].AgentTypes[
                                  CHOOSE i \in Unrecognized : \A j \in Unrecognized : i <= j])

\* a catalog label followed by the same label in lower case was rejected
C13_Witness ==
    /\ phase = "validate_failed"
    /\ m.RobotsTxt[1].AgentTypes = <<Archiver, S("archiver")>>
    /\ lastErr = Errf("unrecognized agent type", S("archiver"))

----------------------------------------------------------------------------
(* The status of the robots.txt response *)

\* C14: once FetchRobotsTxt has ended, a response whose body was read has its
\* body as the cached text, written once, and Provision has not failed,
\* whatever the status of the response; with a transport or read error
\* nothing is cached, and Knownagents.Provision has failed with that error.
C14_AnyStatusIsSuccess ==
    fetch.pc = "done" =>
        IF fetch.outcome.do = "ok" /\ fetch.outcome.read = "ok"
        THEN /\ m.RobotsTxt[1].text = fetch.outcome.body
             /\ fetch.writes = 1
             /\ phase # "provision_failed"
        ELSE /\ m.RobotsTxt[1].text = ""
             /\ fetch.writes = 0
             /\ kind = "Knownagents" =>
                   (phase = "provision_failed" /\ lastErr = FetchErr(fetch.outcome))

\* a Knownagents instance serves with the body of a 500 response as its text
C14_Witness ==
    /\ kind = "Knownagents"
    /\ phase = "serving"
    /\ fetch.pc = "done"
    /\ fetch.outcome.status = 500
    /\ m.RobotsTxt[1].text = "Internal Server Error"

====
